---- MODULE Spec2Model ----
(***************************************************************************)
(* install-diff (src/index.js): for every dependency of a package.json,    *)
(* compare the version pinned in package-lock.json, the version the        *)
(* declared range resolves to in the registry, and the registry's latest   *)
(* version, and print a table of the differences.                          *)
(*                                                                         *)
(* Strings.  A JavaScript string is a record.  A string that has the       *)
(* syntax of a semantic version has txt = "" and is spelled                *)
(*     ["v"] major "." minor "." patch ["-" pre] ["+b"]                    *)
(* (v: a leading "v"; pre = 0: no prerelease tag; build: a "+b" suffix).   *)
(* Any other string, and the non-string values undefined and null, has its *)
(* text in txt and zeros elsewhere.  Two records are equal exactly when    *)
(* the two strings are identical (===).                                    *)
(***************************************************************************)
EXTENDS Integers, Sequences, FiniteSets, TLC

VARIABLES
    pc,            \* where the process is: start, compare, loop, finish, done, exited
    packageJson,   \* package.json in the target directory (or why it cannot be read)
    packageLock,   \* package-lock.json in the target directory (likewise)
    all,           \* options.all, the -a flag
    registry,      \* what `npm show` answers for each dependency
    dependencies,  \* Object.entries of the merged mapping, in iteration order
    idx,           \* position of the for-loop in dependencies
    table,         \* the cli-table3 rows pushed so far
    warnings,      \* console.warn / console.error lines, in order
    queries,       \* number of execSync(`npm show ...`) calls issued
    printed,       \* number of console.log(table.toString()) calls
    exitCode,      \* -1 while running, then the process's exit status
    visited,       \* history: what each loop iteration looked up
    call           \* a single call of one function, for the function-level checks

vars == << pc, packageJson, packageLock, all, registry, dependencies, idx,
           table, warnings, queries, printed, exitCode, visited, call >>

---------------------------------------------------------------------------
(* Bounds *)

MaxDeps == 2        \* distinct package names
MaxMajor == 2       \* major versions 1..MaxMajor
MaxMinor == 1       \* minor and patch numbers 0..MaxMinor
MaxPre == 1         \* prerelease tags 0 (none), 1..MaxPre
MaxReplyLen == 2    \* entries in one registry answer

PackageNames == << "left-pad", "foo", "bar", "baz", "qux" >>
Names == { PackageNames[k] : k \in 1..MaxDeps }

---------------------------------------------------------------------------
(* Strings and versions *)

Str(t) == [txt |-> t, v |-> FALSE, major |-> 0, minor |-> 0, patch |-> 0,
           pre |-> 0, build |-> FALSE]
Ver(lead, M, m, p, pr, b) == [txt |-> "", v |-> lead, major |-> M, minor |-> m,
                              patch |-> p, pre |-> pr, build |-> b]
Plain(M, m, p) == Ver(FALSE, M, m, p, 0, FALSE)

Undefined == Str("<undefined>")
Null == Str("<null>")
NotInstalled == Str("Not installed")
NotFound == Str("Not found in package.json")
ErrorFetching == Str("Error fetching version")
UnableToDetermine == Str("Unable to determine")
GitUrl == Str("github:user/repo#abc123")      \* a version field that is no semver
JsonNonString == Str("<json object>")         \* npm printed JSON that is no string
NoQuotedToken == Undefined                    \* line.match(...)?.[1] on a line without quotes

Truthy(s) == s # Undefined /\ s # Null /\ s # Str("")

\* semver.valid(v): the normalised version (no leading v, no build metadata), or null
valid(s) == IF s.txt = "" THEN [s EXCEPT !.v = FALSE, !.build = FALSE] ELSE Null

\* semver.major(v)
major(s) == s.major

Cmp(a, b) == IF a < b THEN -1 ELSE IF a > b THEN 1 ELSE 0

\* SemVer.compareMain
compareMain(a, b) ==
    IF a.major # b.major THEN Cmp(a.major, b.major)
    ELSE IF a.minor # b.minor THEN Cmp(a.minor, b.minor)
    ELSE Cmp(a.patch, b.patch)

\* SemVer.comparePre: a release is greater than any of its prereleases
comparePre(a, b) ==
    IF a.pre # 0 /\ b.pre = 0 THEN -1
    ELSE IF a.pre = 0 /\ b.pre # 0 THEN 1
    ELSE Cmp(a.pre, b.pre)

\* SemVer.compare: build metadata and the leading v play no part
compare(a, b) == IF compareMain(a, b) # 0 THEN compareMain(a, b) ELSE comparePre(a, b)

\* semver.diff(version1, version2) of semver 7.6: "null" when the two compare equal
diff(v1, v2) ==
    LET comparison == compare(v1, v2)
        high == IF comparison > 0 THEN v1 ELSE v2
        low == IF comparison > 0 THEN v2 ELSE v1
        prefix == IF high.pre # 0 THEN "pre" ELSE ""
    IN  IF comparison = 0 THEN "null"
        ELSE IF low.pre # 0 /\ high.pre = 0
             THEN IF low.patch = 0 /\ low.minor = 0 THEN "major"
                  ELSE IF high.patch # 0 THEN "patch"
                  ELSE IF high.minor # 0 THEN "minor"
                  ELSE "major"
        ELSE IF v1.major # v2.major THEN prefix \o "major"
        ELSE IF v1.minor # v2.minor THEN prefix \o "minor"
        ELSE IF v1.patch # v2.patch THEN prefix \o "patch"
        ELSE "prerelease"

---------------------------------------------------------------------------
(* Version ranges, as package.json declares them *)

Range(k, M) == [kind |-> k, major |-> M]
EmptyRange == Range("empty", 0)     \* ""         (falsy; as a range it means *)
Caret(M) == Range("caret", M)       \* "^M.0.0"
Exact(M) == Range("exact", M)       \* "M.0.0"
LatestTag == Range("tag", 0)        \* "latest": a dist-tag, not a range

RangeTruthy(r) == r.kind # "empty" /\ r.kind # "undefined"
NoRange == Range("undefined", 0)    \* property absent

\* new Range(range) succeeds
RangeParses(r) == r.kind \in {"empty", "caret", "exact"}

\* Range.test(v) without includePrerelease: these ranges name no prerelease,
\* so a prerelease version never satisfies them
satisfies(s, r) ==
    /\ s.pre = 0
    /\ CASE r.kind = "empty" -> TRUE
         [] r.kind = "caret" -> s.major = r.major
         [] r.kind = "exact" -> s.major = r.major /\ s.minor = 0 /\ s.patch = 0
         [] OTHER -> FALSE

\* The loop of semver.maxSatisfying over versions k..Len: max is replaced only
\* by a strictly greater version, so the first of equal versions is kept
RECURSIVE MaxFrom(_, _, _, _)
MaxFrom(versions, r, k, max) ==
    IF k > Len(versions) THEN max
    ELSE IF satisfies(versions[k], r) /\ (max = Null \/ compare(max, versions[k]) = -1)
         THEN MaxFrom(versions, r, k + 1, versions[k])
         ELSE MaxFrom(versions, r, k + 1, max)

\* semver.maxSatisfying(versions, range): null when the range does not parse
maxSatisfying(versions, r) ==
    IF ~RangeParses(r) THEN Null ELSE MaxFrom(versions, r, 1, Null)

---------------------------------------------------------------------------
(* The registry's answers *)

\* execSync threw: non-zero exit, timeout after 10 s, spawn error
ReplyThrow == [kind |-> "throw", array |-> FALSE, scalar |-> Null, items |-> << >>]
\* the output parsed as JSON
ReplyScalar(s) == [kind |-> "json", array |-> FALSE, scalar |-> s, items |-> << >>]
ReplyArray(q) == [kind |-> "json", array |-> TRUE, scalar |-> Null, items |-> q]
\* the output did not parse as JSON; items holds, per line, the first quoted
\* token of the line or NoQuotedToken
ReplyText(q) == [kind |-> "text", array |-> FALSE, scalar |-> Null, items |-> q]

Warn(n, m) == [name |-> n, msg |-> m]
Result(s, w) == [value |-> s, warn |-> w]

\* lines 64-73: JSON.parse(output), or the quoted token of each line
ParseOutput(reply) ==
    IF reply.kind = "json" THEN reply
    ELSE ReplyArray(SelectSeq(reply.items, Truthy))

\* line 76: Array.isArray(versions) ? versions : [versions]
AsArray(parsed) == IF parsed.array THEN parsed.items ELSE << parsed.scalar >>

IsValid(s) == valid(s) # Null

\* line 78
FilterValid(versions) == SelectSeq(versions, IsValid)

\* Mutant of PickVersion: the fallback takes the first entry
PickVersionFirst(validVersions, versionRange) ==
    IF maxSatisfying(validVersions, versionRange) # Null
    THEN maxSatisfying(validVersions, versionRange)
    ELSE validVersions[1]

\* lines 85-88
PickVersion(validVersions, versionRange) ==
    IF maxSatisfying(validVersions, versionRange) # Null
    THEN maxSatisfying(validVersions, versionRange)
    ELSE validVersions[Len(validVersions)]

getLatestVersion(packageName, versionRange, reply) ==
    IF reply.kind = "throw"
    THEN Result(ErrorFetching, << Warn(packageName, "Error fetching version") >>)
    ELSE LET validVersions == FilterValid(AsArray(ParseOutput(reply)))
         IN  IF Len(validVersions) = 0
             THEN Result(UnableToDetermine, << Warn(packageName, "No valid versions found") >>)
             ELSE Result(PickVersion(validVersions, versionRange), << >>)

---------------------------------------------------------------------------
(* package.json: three mappings name -> range, each in the file's key order *)

Decl(n, r) == [name |-> n, range |-> r]

\* mapping?.[packageName]
RECURSIVE Lookup(_, _)
Lookup(mapping, packageName) ==
    IF mapping = << >> THEN NoRange
    ELSE IF mapping[1].name = packageName THEN mapping[1].range
    ELSE Lookup(Tail(mapping), packageName)

Has(mapping, packageName) == \E k \in 1..Len(mapping) : mapping[k].name = packageName

\* lines 96-99: the first truthy of the three
DeclaredRange(packageName, pj) ==
    IF RangeTruthy(Lookup(pj.dependencies, packageName))
    THEN Lookup(pj.dependencies, packageName)
    ELSE IF RangeTruthy(Lookup(pj.devDependencies, packageName))
    THEN Lookup(pj.devDependencies, packageName)
    ELSE Lookup(pj.peerDependencies, packageName)

getInstallableVersion(packageName, pj, reply) ==
    IF ~RangeTruthy(DeclaredRange(packageName, pj))
    THEN Result(NotFound, << Warn(packageName, "not found in package.json") >>)
    ELSE getLatestVersion(packageName, DeclaredRange(packageName, pj), reply)

\* lines 150-156
DependencyType(packageName, pj) ==
    IF RangeTruthy(Lookup(pj.dependencies, packageName)) THEN "dependencies"
    ELSE IF RangeTruthy(Lookup(pj.devDependencies, packageName)) THEN "devDependencies"
    ELSE IF RangeTruthy(Lookup(pj.peerDependencies, packageName)) THEN "peerDependencies"
    ELSE "unknown"

\* { ...target, ...source }: a key already present keeps its place and takes
\* the new value; a new key goes to the end
RECURSIVE Spread(_, _)
Spread(target, source) ==
    IF source = << >> THEN target
    ELSE Spread(
           IF Has(target, source[1].name)
           THEN [k \in 1..Len(target) |->
                   IF target[k].name = source[1].name THEN source[1] ELSE target[k]]
           ELSE Append(target, source[1]),
           Tail(source))

\* lines 126-130 and Object.entries of line 147
MergedDependencies(pj) ==
    Spread(Spread(Spread(<< >>, pj.dependencies), pj.devDependencies), pj.peerDependencies)

---------------------------------------------------------------------------
(* package-lock.json *)

NoEntry == [present |-> FALSE, version |-> Undefined]
Entry(s) == [present |-> TRUE, version |-> s]     \* s = Undefined: no version field

\* Mutant of getInstalledVersion: the legacy shape is looked up first
getInstalledVersionLegacyFirst(packageName, lockDependencies) ==
    IF lockDependencies.hasDependencies
       /\ lockDependencies.dependencies[packageName].present
    THEN lockDependencies.dependencies[packageName].version
    ELSE IF lockDependencies.hasPackages /\ lockDependencies.packages[packageName].present
    THEN lockDependencies.packages[packageName].version
    ELSE NotInstalled

getInstalledVersion(packageName, lockDependencies) ==
    IF lockDependencies.hasPackages /\ lockDependencies.packages[packageName].present
    THEN lockDependencies.packages[packageName].version
    ELSE IF lockDependencies.hasDependencies
            /\ lockDependencies.dependencies[packageName].present
    THEN lockDependencies.dependencies[packageName].version
    ELSE NotInstalled

---------------------------------------------------------------------------
(* compareVersions: one dependency *)

\* Mutant of Validation: the latest version is not validated
ValidationSkipsLatest(installedVersion, installableVersion, latestVersion) ==
    IF \/ installedVersion = UnableToDetermine
       \/ installableVersion = UnableToDetermine
       \/ latestVersion = UnableToDetermine
    THEN "unable"
    ELSE IF valid(installedVersion) = Null \/ valid(installableVersion) = Null
    THEN "invalid"
    ELSE "ok"

\* lines 165-183: what the two checks before the comparison decide
Validation(installedVersion, installableVersion, latestVersion) ==
    IF \/ installedVersion = UnableToDetermine
       \/ installableVersion = UnableToDetermine
       \/ latestVersion = UnableToDetermine
    THEN "unable"
    ELSE IF \/ valid(installedVersion) = Null
            \/ valid(installableVersion) = Null
            \/ valid(latestVersion) = Null
    THEN "invalid"
    ELSE "ok"

\* line 185
hasInstalledChanged(installedVersion, installableVersion) ==
    installedVersion # installableVersion

\* line 186
hasLatestChanged(installedVersion, latestVersion) == installedVersion # latestVersion

\* lines 187-188
isMajorChange(installedVersion, latestVersion) ==
    major(installedVersion) # major(latestVersion)

\* Mutant of Row: the installable version is looked at before the latest
RowInstallableFirst(packageName, dependencyType, versionRange, installedVersion, installableVersion, latestVersion) ==
    LET latestChanged == hasLatestChanged(installedVersion, latestVersion)
        installedChanged == hasInstalledChanged(installedVersion, installableVersion)
        majorChange == isMajorChange(installedVersion, latestVersion)
    IN  [kind |-> "dependency",
         name |-> packageName,
         type |-> dependencyType,
         installed |-> installedVersion,
         installable |-> installableVersion,
         latest |-> latestVersion,
         installedColor |->
             IF installedChanged THEN "yellow"
             ELSE IF latestChanged THEN (IF majorChange THEN "red" ELSE "yellow")
             ELSE "green",
         installableColor |->
             IF latestChanged \/ installedChanged THEN "yellow" ELSE "green",
         latestColor |->
             IF installedChanged THEN "green"
             ELSE IF latestChanged THEN (IF majorChange THEN "red" ELSE "yellow")
             ELSE "green",
         rangeNote |-> versionRange,
         diffNote |->
             IF installedChanged THEN diff(installedVersion, installableVersion)
             ELSE IF latestChanged THEN diff(installedVersion, latestVersion)
             ELSE "none",
         diffOn |->
             IF installedChanged THEN "installable"
             ELSE IF latestChanged THEN "latest" ELSE "none"]

\* lines 190-223 and 226-232: the row of one dependency.  rangeNote and
\* diffNote are the grey annotations; diffOn is the column carrying diffNote
Row(packageName, dependencyType, versionRange, installedVersion, installableVersion, latestVersion) ==
    LET latestChanged == hasLatestChanged(installedVersion, latestVersion)
        installedChanged == hasInstalledChanged(installedVersion, installableVersion)
        majorChange == isMajorChange(installedVersion, latestVersion)
    IN  [kind |-> "dependency",
         name |-> packageName,
         type |-> dependencyType,
         installed |-> installedVersion,
         installable |-> installableVersion,
         latest |-> latestVersion,
         installedColor |->
             IF latestChanged THEN (IF majorChange THEN "red" ELSE "yellow")
             ELSE IF installedChanged THEN "yellow" ELSE "green",
         installableColor |->
             IF latestChanged \/ installedChanged THEN "yellow" ELSE "green",
         latestColor |->
             IF latestChanged THEN (IF majorChange THEN "red" ELSE "yellow")
             ELSE "green",
         rangeNote |-> versionRange,
         diffNote |->
             IF latestChanged THEN diff(installedVersion, latestVersion)
             ELSE IF installedChanged THEN diff(installedVersion, installableVersion)
             ELSE "none",
         diffOn |->
             IF latestChanged THEN "latest"
             ELSE IF installedChanged THEN "installable" ELSE "none"]

\* Mutant of ShouldInclude: a change of the installable version alone is not shown
ShouldIncludeLatestOnly(showAll, latestChanged, installedChanged) ==
    showAll \/ latestChanged

\* line 225
ShouldInclude(showAll, latestChanged, installedChanged) ==
    showAll \/ latestChanged \/ installedChanged

\* lines 240-248
SyntheticRow ==
    [kind |-> "synthetic", name |-> "", type |-> "", installed |-> Str(""),
     installable |-> Str(""), latest |-> Str(""), installedColor |-> "green",
     installableColor |-> "green", latestColor |-> "green", rangeNote |-> NoRange,
     diffNote |-> "none", diffOn |-> "none"]

\* lines 148-237: everything one iteration finds out and does, from the
\* loop variable and the three inputs
Iteration(entry, pj, lock, reg, showAll) ==
    LET packageName == entry.name
        dependencyType == DependencyType(packageName, pj)
        installedVersion == getInstalledVersion(packageName, lock)
        installable == getInstallableVersion(packageName, pj, reg[packageName].installable)
        latest == getLatestVersion(packageName, LatestTag, reg[packageName].latest)
        validation == Validation(installedVersion, installable.value, latest.value)
    IN  [name |-> packageName,
         type |-> dependencyType,
         range |-> entry.range,
         installed |-> installedVersion,
         installable |-> installable.value,
         latest |-> latest.value,
         validation |-> validation,
         queries |-> (IF installable.value = NotFound THEN 0 ELSE 1) + 1,
         warn |-> installable.warn \o latest.warn \o
                  (CASE validation = "unable" ->
                          << Warn(packageName, "Unable to determine all versions. Skipping.") >>
                     [] validation = "invalid" ->
                          << Warn(packageName, "Invalid version detected. Skipping.") >>
                     [] OTHER -> << >>),
         pushed |-> /\ validation = "ok"
                    /\ ShouldInclude(showAll,
                                     hasLatestChanged(installedVersion, latest.value),
                                     hasInstalledChanged(installedVersion, installable.value)),
         row |-> Row(packageName, dependencyType, entry.range, installedVersion,
                     installable.value, latest.value)]

---------------------------------------------------------------------------
(* The process *)

\* Mutant of InputProblem: && for ||, only both files missing is a problem
InputProblemBothMissing(pj, lock) ==
    IF pj.state = "missing" /\ lock.state = "missing" THEN "missing file"
    ELSE IF pj.state = "unparseable" THEN "package.json: SyntaxError"
    ELSE IF lock.state = "unparseable" THEN "package-lock.json: SyntaxError"
    ELSE IF lock.state = "falsy" THEN "Failed to parse package-lock.json"
    ELSE ""

\* lines 42-54: why the process stops before any processing, or "" to go on
InputProblem(pj, lock) ==
    IF pj.state = "missing" \/ lock.state = "missing" THEN "missing file"
    ELSE IF pj.state = "unparseable" THEN "package.json: SyntaxError"
    ELSE IF lock.state = "unparseable" THEN "package-lock.json: SyntaxError"
    ELSE IF lock.state = "falsy" THEN "Failed to parse package-lock.json"
    ELSE ""

\* lines 39-54
CheckInputs ==
    /\ pc = "start"
    /\ IF InputProblem(packageJson, packageLock) # ""
       THEN /\ pc' = "exited"
            /\ exitCode' = 1
            /\ warnings' = Append(warnings, Warn("", InputProblem(packageJson, packageLock)))
       ELSE /\ pc' = "compare"
            /\ UNCHANGED << exitCode, warnings >>
    /\ UNCHANGED << packageJson, packageLock, all, registry, dependencies, idx,
                    table, queries, printed, visited, call >>

\* lines 125-145: the merged mapping, an empty table, the spinner
BeginCompare ==
    /\ pc = "compare"
    /\ packageJson.state = "ok"
    /\ dependencies' = MergedDependencies(packageJson)
    /\ idx' = 1
    /\ table' = << >>
    /\ pc' = "loop"
    /\ UNCHANGED << packageJson, packageLock, all, registry, warnings, queries,
                    printed, exitCode, visited, call >>

\* lines 127 and 254-257: package.json holds null, reading its properties
\* throws, compareVersions rejects
TopLevelCatch ==
    /\ pc = "compare"
    /\ packageJson.state = "null"
    /\ warnings' = Append(warnings, Warn("", "An error occurred"))
    /\ exitCode' = 1
    /\ pc' = "exited"
    /\ UNCHANGED << packageJson, packageLock, all, registry, dependencies, idx,
                    table, queries, printed, visited, call >>

\* Mutant of VisitDependency: break for continue, a skipped dependency ends the loop
VisitDependencyBreaks ==
    /\ pc = "loop"
    /\ idx <= Len(dependencies)
    /\ \E it \in { Iteration(dependencies[idx], packageJson, packageLock, registry, all) } :
           /\ table' = IF it.pushed THEN Append(table, it.row) ELSE table
           /\ warnings' = warnings \o it.warn
           /\ queries' = queries + it.queries
           /\ visited' = Append(visited, it)
           /\ idx' = IF it.validation = "ok" THEN idx + 1 ELSE Len(dependencies) + 1
    /\ UNCHANGED << pc, packageJson, packageLock, all, registry, dependencies,
                    printed, exitCode, call >>

\* lines 147-238: one iteration of the loop
VisitDependency ==
    /\ pc = "loop"
    /\ idx <= Len(dependencies)
    /\ \E it \in { Iteration(dependencies[idx], packageJson, packageLock, registry, all) } :
           /\ table' = IF it.pushed THEN Append(table, it.row) ELSE table
           /\ warnings' = warnings \o it.warn
           /\ queries' = queries + it.queries
           /\ visited' = Append(visited, it)
    /\ idx' = idx + 1
    /\ UNCHANGED << pc, packageJson, packageLock, all, registry, dependencies,
                    printed, exitCode, call >>

\* Mutant of FinishCompare: the synthetic row is pushed whatever the table holds
FinishCompareAlwaysSynthetic ==
    /\ pc = "loop"
    /\ idx > Len(dependencies)
    /\ table' = Append(table, SyntheticRow)
    /\ printed' = printed + 1
    /\ exitCode' = 0
    /\ pc' = "done"
    /\ UNCHANGED << packageJson, packageLock, all, registry, dependencies, idx,
                    warnings, queries, visited, call >>

\* lines 239-251, and the process ending with nothing left to run
FinishCompare ==
    /\ pc = "loop"
    /\ idx > Len(dependencies)
    /\ table' = IF Len(table) = 0 THEN << SyntheticRow >> ELSE table
    /\ printed' = printed + 1
    /\ exitCode' = 0
    /\ pc' = "done"
    /\ UNCHANGED << packageJson, packageLock, all, registry, dependencies, idx,
                    warnings, queries, visited, call >>

Next == CheckInputs \/ BeginCompare \/ TopLevelCatch \/ VisitDependency \/ FinishCompare

---------------------------------------------------------------------------
(* Inputs: the two files, the flag, the registry *)

MaxDecls == 2       \* declarations in one package.json, over the three mappings

\* All key orders of a mapping over some of the names, at most n keys
RECURSIVE Mappings(_, _, _)
Mappings(names, ranges, n) ==
    IF n = 0 \/ names = {} THEN { << >> }
    ELSE { << >> } \cup
         UNION { { << Decl(nm, r) >> \o rest : rest \in Mappings(names \ {nm}, ranges, n - 1) }
                 : << nm, r >> \in names \X ranges }

Manifest(deps, dev, peer) ==
    [state |-> "ok", dependencies |-> deps, devDependencies |-> dev,
     peerDependencies |-> peer]
\* a package.json that is absent, is no JSON, or holds null
NoManifest(why) ==
    [state |-> why, dependencies |-> << >>, devDependencies |-> << >>,
     peerDependencies |-> << >>]

Lockfile(hasP, pk, hasD, dp) ==
    [state |-> "ok", hasPackages |-> hasP, packages |-> pk, hasDependencies |-> hasD,
     dependencies |-> dp]
NoEntries == [n \in Names |-> NoEntry]
\* a package-lock.json that is absent, is no JSON, or holds null, false, 0 or ""
NoLockfile(why) ==
    [state |-> why, hasPackages |-> FALSE, packages |-> NoEntries,
     hasDependencies |-> FALSE, dependencies |-> NoEntries]

Answers(a, b) == [installable |-> a, latest |-> b]
DeclaredNames(pj) == { MergedDependencies(pj)[k].name : k \in 1..Len(MergedDependencies(pj)) }

NoCall == [fn |-> "none"]

\* The process as node starts it, before line 39
Started(pj, lock, showAll, reg) ==
    /\ pc = "start"
    /\ packageJson = pj
    /\ packageLock = lock
    /\ all = showAll
    /\ registry = reg
    /\ dependencies = << >>
    /\ idx = 0
    /\ table = << >>
    /\ warnings = << >>
    /\ queries = 0
    /\ printed = 0
    /\ exitCode = -1
    /\ visited = << >>
    /\ call = NoCall

\* Every name pinned at 1.0.0, resolving to 1.0.0, with 2.0.0 the latest
PinnedLock == Lockfile(TRUE, [n \in Names |-> Entry(Plain(1, 0, 0))], FALSE, NoEntries)
DriftRegistry ==
    [n \in Names |-> Answers(ReplyScalar(Plain(1, 0, 0)), ReplyScalar(Plain(2, 0, 0)))]

\* Inputs that differ in whether the two files can be read
InitFiles ==
    \E pjState \in {"missing", "unparseable", "null", "ok"},
       lockState \in {"missing", "unparseable", "falsy", "ok"}, showAll \in BOOLEAN :
        Started(IF pjState = "ok"
                THEN Manifest(<< Decl(PackageNames[1], Caret(1)) >>, << >>, << >>)
                ELSE NoManifest(pjState),
                IF lockState = "ok" THEN PinnedLock ELSE NoLockfile(lockState),
                showAll, DriftRegistry)

\* Inputs that differ in how package.json declares the names
OrderRanges == {EmptyRange, Caret(1), Caret(2)}
InitOrder ==
    \E deps \in Mappings(Names, OrderRanges, MaxDecls) :
    \E dev \in Mappings(Names, OrderRanges, MaxDecls - Len(deps)) :
    \E peer \in Mappings(Names, OrderRanges, MaxDecls - Len(deps) - Len(dev)) :
    \E showAll \in BOOLEAN :
        Started(Manifest(deps, dev, peer), PinnedLock, showAll, DriftRegistry)

\* Inputs that differ in what the lockfile and the registry hold for each of
\* the first k names, all of them runtime dependencies
OutcomeEntries == {NoEntry, Entry(Undefined), Entry(Plain(1, 0, 0))}
OutcomeInstallable ==
    {ReplyThrow, ReplyArray(<< >>), ReplyScalar(Plain(1, 0, 0)), ReplyScalar(Plain(1, 1, 0))}
OutcomeLatest == {ReplyThrow, ReplyScalar(Plain(1, 0, 0)), ReplyScalar(Plain(2, 0, 0))}
InitOutcome ==
    \E k \in 1..MaxDeps :
    \E pk \in [Names -> OutcomeEntries] :
    \E reg \in [Names -> {Answers(a, b) : << a, b >> \in OutcomeInstallable \X OutcomeLatest}] :
    \E showAll \in BOOLEAN :
        /\ \A j \in (k + 1)..MaxDeps :
              /\ pk[PackageNames[j]] = NoEntry
              /\ reg[PackageNames[j]] = Answers(ReplyThrow, ReplyThrow)
        /\ Started(Manifest([j \in 1..k |-> Decl(PackageNames[j], Exact(1))], << >>, << >>),
                   Lockfile(TRUE, pk, FALSE, NoEntries), showAll, reg)

Init == InitFiles \/ InitOrder \/ InitOutcome

Spec == Init /\ [][Next]_vars

\* Inputs in which every name is a runtime dependency and meets one of the
\* ways a dependency can fail, or none
Fate(e, a, b) == [entry |-> e, answers |-> Answers(a, b)]
Fates ==
    { Fate(Entry(Plain(1, 0, 0)), ReplyScalar(Plain(1, 1, 0)), ReplyScalar(Plain(2, 0, 0))),
      Fate(Entry(Plain(1, 0, 0)), ReplyScalar(Plain(1, 0, 0)), ReplyScalar(Plain(1, 0, 0))),
      Fate(Entry(Plain(1, 0, 0)), ReplyThrow, ReplyScalar(Plain(2, 0, 0))),
      Fate(Entry(Plain(1, 0, 0)), ReplyScalar(Plain(1, 0, 0)), ReplyThrow),
      Fate(Entry(Plain(1, 0, 0)), ReplyArray(<< >>), ReplyScalar(Plain(2, 0, 0))),
      Fate(NoEntry, ReplyScalar(Plain(1, 0, 0)), ReplyScalar(Plain(1, 0, 0))),
      Fate(Entry(GitUrl), ReplyScalar(Plain(1, 0, 0)), ReplyScalar(Plain(1, 0, 0))) }
InitFailures ==
    \E fate \in [Names -> Fates], showAll \in BOOLEAN :
        Started(Manifest([j \in 1..MaxDeps |-> Decl(PackageNames[j], Caret(1))], << >>, << >>),
                Lockfile(TRUE, [n \in Names |-> fate[n].entry], FALSE, NoEntries),
                showAll, [n \in Names |-> fate[n].answers])

LiveInit == InitFiles \/ InitFailures

\* One thread runs every step, and each blocking registry call ends within
\* its 10 s timeout (line 60): the process never just stops
LiveSpec == LiveInit /\ [][Next]_vars /\ WF_vars(Next)

---------------------------------------------------------------------------
(* Single calls of the functions *)

Idle(c) ==
    /\ pc = "idle"
    /\ packageJson = NoManifest("missing")
    /\ packageLock = NoLockfile("missing")
    /\ all = FALSE
    /\ registry = [n \in Names |-> Answers(ReplyThrow, ReplyThrow)]
    /\ dependencies = << >>
    /\ idx = 0
    /\ table = << >>
    /\ warnings = << >>
    /\ queries = 0
    /\ printed = 0
    /\ exitCode = -1
    /\ visited = << >>
    /\ call = c

Pipeline == << pc, packageJson, packageLock, all, registry, dependencies, idx,
              table, warnings, queries, printed, exitCode, visited >>

RECURSIVE SeqsUpTo(_, _)
SeqsUpTo(S, n) ==
    IF n = 0 THEN { << >> }
    ELSE SeqsUpTo(S, n - 1) \cup
         { Append(q, x) : << q, x >> \in { q \in SeqsUpTo(S, n - 1) : Len(q) = n - 1 } \X S }

\* What the registry may list: releases and prereleases, and a non-version
RegistryVersions ==
    { Ver(FALSE, M, m, 0, pr, FALSE) :
        << M, m, pr >> \in (1..MaxMajor) \X (0..MaxMinor) \X (0..MaxPre) }
QueryRanges ==
    {LatestTag} \cup { Caret(M) : M \in 1..MaxMajor } \cup { Exact(M) : M \in 1..MaxMajor }

InitResolver ==
    LET ReplyItems == RegistryVersions \cup {JsonNonString}
        Replies ==
            {ReplyThrow}
            \cup { ReplyScalar(s) : s \in ReplyItems }
            \cup { ReplyArray(q) : q \in SeqsUpTo(ReplyItems, MaxReplyLen) }
            \cup { ReplyText(q) :
                     q \in SeqsUpTo(RegistryVersions \cup {NoQuotedToken}, MaxReplyLen) }
    IN  \E r \in QueryRanges, reply \in Replies :
            Idle([fn |-> "getLatestVersion", done |-> FALSE, name |-> PackageNames[1],
                  range |-> r, reply |-> reply, result |-> Result(Undefined, << >>)])

\* lines 56-93, called once
CallGetLatestVersion ==
    /\ call.fn = "getLatestVersion"
    /\ ~call.done
    /\ call' = [call EXCEPT !.done = TRUE,
                            !.result = getLatestVersion(call.name, call.range, call.reply)]
    /\ UNCHANGED Pipeline

SpecResolver == InitResolver /\ [][CallGetLatestVersion]_vars

\* What a lockfile may hold for a name
LockEntries ==
    {NoEntry, Entry(Undefined)} \cup { Entry(Plain(M, 0, 0)) : M \in 1..MaxMajor }

InitLockfile ==
    LET Lockfiles ==
            { Lockfile(x[1], x[2], x[3], x[4]) :
                x \in { y \in BOOLEAN \X [Names -> LockEntries]
                                \X BOOLEAN \X [Names -> LockEntries] :
                            /\ (~y[1] => y[2] = NoEntries)
                            /\ (~y[3] => y[4] = NoEntries) } }
    IN  \E n \in Names, lock \in Lockfiles :
            Idle([fn |-> "getInstalledVersion", done |-> FALSE, name |-> n, lock |-> lock,
                  result |-> Null])

\* lines 107-123, called once
CallGetInstalledVersion ==
    /\ call.fn = "getInstalledVersion"
    /\ ~call.done
    /\ call' = [call EXCEPT !.done = TRUE,
                            !.result = getInstalledVersion(call.name, call.lock)]
    /\ UNCHANGED Pipeline

SpecLockfile == InitLockfile /\ [][CallGetInstalledVersion]_vars

\* Valid versions in three spellings: plain, with a leading v, with build metadata
Numbers ==
    { Ver(FALSE, M, m, p, pr, FALSE) :
        << M, m, p, pr >> \in (1..MaxMajor) \X (0..MaxMinor) \X (0..MaxMinor) \X (0..MaxPre) }
Spellings ==
    Numbers \cup { [s EXCEPT !.v = TRUE] : s \in Numbers }
            \cup { [s EXCEPT !.build = TRUE] : s \in Numbers }
Releases == { s \in Numbers : s.patch = 0 /\ s.pre = 0 }

NotClassified ==
    [installedChanged |-> FALSE, latestChanged |-> FALSE, majorChange |-> FALSE,
     included |-> FALSE, row |-> SyntheticRow]

InitClassify ==
    \E a \in Spellings, b \in Releases, c \in Numbers :
        Idle([fn |-> "classify", done |-> FALSE, name |-> "foo", type |-> "dependencies",
              range |-> Caret(1), installed |-> a, installable |-> b, latest |-> c,
              result |-> NotClassified])

\* lines 176-233 for one dependency whose three versions are at hand, flag off
CallClassify ==
    /\ call.fn = "classify"
    /\ ~call.done
    /\ Validation(call.installed, call.installable, call.latest) = "ok"
    /\ call' = [call EXCEPT
          !.done = TRUE,
          !.result =
              [installedChanged |-> hasInstalledChanged(call.installed, call.installable),
               latestChanged |-> hasLatestChanged(call.installed, call.latest),
               majorChange |-> isMajorChange(call.installed, call.latest),
               included |-> ShouldInclude(FALSE,
                                          hasLatestChanged(call.installed, call.latest),
                                          hasInstalledChanged(call.installed, call.installable)),
               row |-> Row(call.name, call.type, call.range, call.installed,
                           call.installable, call.latest)]]
    /\ UNCHANGED Pipeline

SpecClassify == InitClassify /\ [][CallClassify]_vars

---------------------------------------------------------------------------
(* Properties of a run *)

DependencyRows == SelectSeq(table, LAMBDA r : r.kind = "dependency")
HasRow(packageName) ==
    \E k \in 1..Len(table) : table[k].kind = "dependency" /\ table[k].name = packageName
Visits == { visited[k] : k \in 1..Len(visited) }
AllValid(it) == IsValid(it.installed) /\ IsValid(it.installable) /\ IsValid(it.latest)
Drifted(it) == it.installable # it.installed \/ it.latest # it.installed
Qualifies(it) == AllValid(it) /\ (all \/ Drifted(it))

\* C1 (omission law): a dependency whose three versions were all validated
\* has a row exactly when the show-all flag is on or its installable or its
\* latest version differs from the locked one.
C1_OmissionLaw ==
    \A it \in Visits :
        AllValid(it) => (HasRow(it.name) <=> (all \/ Drifted(it)))

C1_Witness ==
    /\ pc = "done"
    /\ ~all
    /\ \E it \in Visits : AllValid(it) /\ ~Drifted(it) /\ ~HasRow(it.name)
    /\ \E it \in Visits : AllValid(it) /\ Drifted(it) /\ HasRow(it.name)

Sentinels == {NotInstalled, NotFound, ErrorFetching, UnableToDetermine, Undefined}

\* C2 (validity of the report): every dependency row holds three valid
\* semantic versions; a dependency with a sentinel, an undefined or any other
\* invalid version has no row, flag or no flag, and a warning names it.
C2_ValidRowsOnly ==
    /\ \A k \in 1..Len(table) :
          table[k].kind = "dependency" =>
              /\ table[k].installed.txt = ""
              /\ table[k].installable.txt = ""
              /\ table[k].latest.txt = ""
              /\ {table[k].installed, table[k].installable, table[k].latest}
                     \cap Sentinels = {}
    /\ \A it \in Visits :
          (it.installed.txt # "" \/ it.installable.txt # "" \/ it.latest.txt # "") =>
              /\ ~HasRow(it.name)
              /\ \E w \in 1..Len(warnings) : warnings[w].name = it.name

C2_Witness ==
    /\ pc = "done"
    /\ all
    /\ \E it \in Visits : it.installed = NotInstalled /\ ~HasRow(it.name)
    /\ \E it \in Visits : it.installable = ErrorFetching /\ it.installed.txt = ""
                          /\ ~HasRow(it.name)

NumQualified == Cardinality({ k \in 1..Len(visited) : Qualifies(visited[k]) })
EmptyDiffScenario ==
    /\ packageJson = Manifest(<< Decl("left-pad", Exact(1)) >>, << >>, << >>)
    /\ getInstalledVersion("left-pad", packageLock) = Plain(1, 0, 0)
    /\ registry["left-pad"] =
           Answers(ReplyScalar(Plain(1, 0, 0)), ReplyScalar(Plain(1, 0, 0)))
    /\ ~all

\* C3 (synthetic row): once every dependency is processed the table is the
\* single synthetic row exactly when no dependency qualified for a row, never
\* mixes the two kinds, and is never empty; the empty-diff scenario gives
\* exactly the synthetic row.
C3_SyntheticRow ==
    pc = "done" =>
        /\ (NumQualified = 0 <=> table = << SyntheticRow >>)
        /\ (NumQualified > 0 =>
               Len(table) = NumQualified /\ Len(DependencyRows) = Len(table))
        /\ Len(table) > 0
        /\ (EmptyDiffScenario => table = << SyntheticRow >>)

C3_Witness ==
    /\ pc = "done"
    /\ EmptyDiffScenario
    /\ Len(visited) = 1
    /\ AllValid(visited[1])
    /\ table = << SyntheticRow >>

\* The rows of the qualifying dependencies, each computed from what was
\* looked up for that dependency alone
RECURSIVE RowsOf(_)
RowsOf(seen) ==
    IF seen = << >> THEN << >>
    ELSE LET it == seen[Len(seen)]
         IN  RowsOf(SubSeq(seen, 1, Len(seen) - 1)) \o
             (IF Qualifies(it)
              THEN << Row(it.name, it.type, it.range, it.installed, it.installable,
                          it.latest) >>
              ELSE << >>)

C4_Safety ==
    /\ pc \in {"loop", "done"} =>
          /\ Len(visited) = idx - 1
          /\ Len(visited) <= Len(dependencies)
          /\ \A k \in 1..Len(visited) : visited[k].name = dependencies[k].name
          /\ DependencyRows = RowsOf(visited)
    /\ printed <= 1
    /\ printed = 1 <=> pc = "done"
    /\ pc = "done" => Len(visited) = Len(dependencies) /\ exitCode = 0

\* C4 (error isolation): whatever fails for a dependency, the run visits every
\* dependency once, in order, the rows are those each dependency yields on its
\* own, and the run ends by printing the table once, after the last
\* dependency, with exit code 0.
C4_ErrorIsolation ==
    /\ [] C4_Safety
    /\ (pc = "loop") ~> (pc = "done" /\ printed = 1 /\ exitCode = 0)

C4_Witness ==
    /\ pc = "done"
    /\ printed = 1
    /\ exitCode = 0
    /\ Len(visited) = 2
    /\ visited[1].installable = ErrorFetching
    /\ visited[2].validation = "ok"
    /\ HasRow(visited[2].name)
    /\ ~HasRow(visited[1].name)

FatalInput ==
    \/ packageJson.state = "missing"
    \/ packageLock.state \in {"missing", "unparseable", "falsy"}

\* C5 (fatal input errors): with package.json or package-lock.json missing, or
\* a lockfile that cannot be parsed, the only step taken is the exit with
\* status 1: no registry query, no dependency visited, no table printed.
C5_FatalInputs ==
    FatalInput =>
        /\ pc \in {"start", "exited"}
        /\ pc = "exited" => exitCode = 1
        /\ pc = "start" => exitCode = -1
        /\ queries = 0
        /\ visited = << >>
        /\ printed = 0
        /\ table = << >>

C5_Witness ==
    /\ pc = "exited"
    /\ exitCode = 1
    /\ packageJson.state = "ok"
    /\ packageLock.state = "missing"
    /\ printed = 0

\* The first of the three mappings that declares the name
FirstDeclaring(packageName, pj) ==
    IF Has(pj.dependencies, packageName) THEN "dependencies"
    ELSE IF Has(pj.devDependencies, packageName) THEN "devDependencies"
    ELSE "peerDependencies"
FirstDeclaredRange(packageName, pj) ==
    IF Has(pj.dependencies, packageName) THEN Lookup(pj.dependencies, packageName)
    ELSE IF Has(pj.devDependencies, packageName) THEN Lookup(pj.devDependencies, packageName)
    ELSE Lookup(pj.peerDependencies, packageName)

\* No declaration of the name is the empty string
NoEmptyRange(packageName, pj) ==
    /\ Lookup(pj.dependencies, packageName) # EmptyRange
    /\ Lookup(pj.devDependencies, packageName) # EmptyRange
    /\ Lookup(pj.peerDependencies, packageName) # EmptyRange

\* C10 (visit order, duplicate names): each distinct name is visited once, in
\* the order runtime, development, peer, rows are in visit order, and for a
\* name declared in several categories the category shown, the range resolved
\* and the range annotated on the row are those of the first category.
\* (Stated here for names declared with non-empty ranges only.)
C10_FirstOccurrenceWins ==
    /\ \A j, k \in 1..Len(visited) : visited[j].name = visited[k].name => j = k
    /\ \A j, k \in 1..Len(table) :
          (j < k /\ table[k].kind = "dependency") =>
              \E a, b \in 1..Len(visited) :
                  a < b /\ visited[a].name = table[j].name /\ visited[b].name = table[k].name
    /\ \A k \in 1..Len(table) :
          (table[k].kind = "dependency" /\ NoEmptyRange(table[k].name, packageJson)) =>
              /\ table[k].type = FirstDeclaring(table[k].name, packageJson)
              /\ DeclaredRange(table[k].name, packageJson)
                     = FirstDeclaredRange(table[k].name, packageJson)
              /\ table[k].rangeNote = FirstDeclaredRange(table[k].name, packageJson)

---------------------------------------------------------------------------
(* Properties of single calls *)

Resolved == call.fn = "getLatestVersion" /\ call.done
\* The registry's answer as a list, and its entries that are versions
AnswerList(reply) ==
    IF reply.kind = "text" THEN SelectSeq(reply.items, LAMBDA s : s # NoQuotedToken)
    ELSE IF reply.array THEN reply.items
    ELSE << reply.scalar >>
Candidates(reply) == SelectSeq(AnswerList(reply), LAMBDA s : s.txt = "")

Looked == call.fn = "getInstalledVersion" /\ call.done
CurrentEntry == call.lock.packages[call.name]
LegacyEntry == call.lock.dependencies[call.name]
CurrentExists == call.lock.hasPackages /\ CurrentEntry.present
LegacyExists == call.lock.hasDependencies /\ LegacyEntry.present
ThreeWayRule ==
    /\ CurrentExists => call.result = CurrentEntry.version
    /\ (~CurrentExists /\ LegacyExists) => call.result = LegacyEntry.version
    /\ (~CurrentExists /\ ~LegacyExists) => call.result = NotInstalled
LegacyAsCurrent ==
    ~call.lock.hasPackages =>
        call.result = getInstalledVersion(call.name,
                          Lockfile(TRUE, call.lock.dependencies, FALSE, NoEntries))

\* C7 as claimed: the result is the version field of the current-shape entry,
\* else of the legacy entry, else 'Not installed', and so always a concrete
\* version or 'Not installed'; a legacy-only lockfile reads like the
\* equivalent current-shape lockfile.
C7_Original ==
    Looked =>
        /\ ThreeWayRule
        /\ call.result.txt = "" \/ call.result = NotInstalled
        /\ LegacyAsCurrent

\* C7 (lockfile reader), amended: as claimed, except that an entry without a
\* version field makes the result undefined; the result is a concrete version,
\* undefined or 'Not installed', and undefined only for such an entry.
C7_LockfileReader ==
    Looked =>
        /\ ThreeWayRule
        /\ call.result.txt = "" \/ call.result \in {NotInstalled, Undefined}
        /\ call.result = Undefined <=>
               \/ CurrentExists /\ CurrentEntry.version = Undefined
               \/ ~CurrentExists /\ LegacyExists /\ LegacyEntry.version = Undefined
        /\ LegacyAsCurrent

C7_Witness ==
    /\ Looked
    /\ ~call.lock.hasPackages
    /\ LegacyExists
    /\ call.result = Plain(1, 0, 0)

Classified == call.fn = "classify" /\ call.done

\* C8 (change detection): changed = false exactly when the two versions are
\* identical after normalisation; two spellings of one version are no drift.
C8_NormalizedEquality ==
    Classified =>
        /\ ~call.result.installedChanged <=> valid(call.installed) = valid(call.installable)
        /\ ~call.result.latestChanged <=> valid(call.installed) = valid(call.latest)

PlainKinds == {"major", "minor", "patch", "prerelease"}
AllKinds == PlainKinds \cup {"premajor", "preminor", "prepatch"}
DriftScenario ==
    /\ call.installed = Plain(1, 0, 0)
    /\ call.installable = Plain(1, 0, 0)
    /\ call.latest = Plain(2, 0, 0)
\* The version the row's diff kind is measured against
ComparedWith ==
    IF call.result.latestChanged THEN call.latest ELSE call.installable
Precedence ==
    LET r == call.result.row
        severe == IF call.installed.major # call.latest.major THEN "red" ELSE "yellow"
    IN  /\ call.result.latestChanged =>
              /\ r.diffOn = "latest"
              /\ r.diffNote = diff(call.installed, call.latest)
              /\ r.latestColor = severe
              /\ r.installedColor = severe
        /\ (~call.result.latestChanged /\ call.result.installedChanged) =>
              /\ r.diffOn = "installable"
              /\ r.diffNote = diff(call.installed, call.installable)
              /\ r.installedColor = "yellow"
              /\ r.installableColor = "yellow"
              /\ r.latestColor = "green"
        /\ (~call.result.latestChanged /\ ~call.result.installedChanged) =>
              /\ r.diffOn = "none"
              /\ r.diffNote = "none"
              /\ r.installedColor = "green"
              /\ r.installableColor = "green"
              /\ r.latestColor = "green"
        /\ DriftScenario =>
              /\ call.result.latestChanged
              /\ call.result.majorChange
              /\ call.result.included
              /\ r.diffNote = "major"

\* C9 as claimed: the latest version takes precedence over the installable one
\* for diff kind and severity, and a changed row's diff kind is one of major,
\* minor, patch, prerelease.
C9_Original ==
    Classified =>
        /\ Precedence
        /\ (call.result.latestChanged \/ call.result.installedChanged) =>
               call.result.row.diffNote \in PlainKinds

\* C9 (diff kind and severity precedence), amended: as claimed, except that a
\* changed row's diff kind is one of major, premajor, minor, preminor, patch,
\* prepatch, prerelease, or null when the two compared strings spell the same
\* version.
C9_DiffKindPrecedence ==
    Classified =>
        /\ Precedence
        /\ (call.result.latestChanged \/ call.result.installedChanged) =>
               /\ call.result.row.diffNote \in AllKinds \cup {"null"}
               /\ call.result.row.diffNote = "null" <=>
                      valid(call.installed) = valid(ComparedWith)

C9_Witness ==
    /\ Classified
    /\ call.result.latestChanged
    /\ call.result.installedChanged
    /\ call.latest.pre # 0
    /\ call.result.row.diffNote = "premajor"
    /\ call.result.row.diffOn = "latest"
    /\ call.result.row.latestColor = "red"

====
